---- MODULE Spec2Model ----
(***************************************************************************)
(* Model of the Markdown-to-PDF converter (lib/converter.js).              *)
(*                                                                         *)
(* Five specifications share the variables of this module:                 *)
(*   Spec          one invocation of convertMdToPdf, one action per        *)
(*                 statement of the function, with the file system, the    *)
(*                 installed browsers and the rendering engine as the      *)
(*                 environment;                                            *)
(*   SpecClean     cleanMarkdownContent applied once and then again to its *)
(*                 own output, on every text built from at most MaxPieces  *)
(*                 pieces;                                                 *)
(*   SpecHeadings  extractHeadings and generateTocHtml on every array of   *)
(*                 at most MaxTokens tokens, then extractHeadings again    *)
(*                 with the same filter object;                            *)
(*   SpecTwo       MaxRuns invocations of convertMdToPdf in one process,   *)
(*                 their turns interleaved at the awaits;                  *)
(*   SpecCli       one run of cli.js from the parsed command line to the   *)
(*                 exit code.                                              *)
(* Texts are sequences of characters; the zero-width code points are the   *)
(* characters named "U+200B" .. "U+FEFF".                                  *)
(***************************************************************************)
EXTENDS Integers, Sequences, FiniteSets, TLC

VARIABLES
    \* ---- convertMdToPdf: arguments and environment -------------------
    inputFile,      \* argument inputFile (a path)
    outputFile,     \* argument outputFile (a path)
    options,        \* argument options: chromePath, noToc, tocFilter, tocTitle
    platform,       \* process.platform
    disk,           \* file system: what lies at each candidate input path
    fileText,       \* the text of the input file
    installed,      \* the browser executables present on this machine
    \* ---- convertMdToPdf: locals and effects ---------------------------
    pc,             \* position in convertMdToPdf
    inputPath,      \* const inputPath
    outputPath,     \* const outputPath
    chromePath,     \* const chromePath
    rawContent,     \* const rawContent
    cleanContent,   \* const cleanContent
    browser,        \* the launched engine: "none", "open", "closed"
    launchedWith,   \* executablePath handed to puppeteer.launch
    error,          \* the exception caught by the catch clause
    result,         \* <<value>> once the promise resolved
    thrown,         \* <<message>> once the promise rejected
    trace,          \* the stages completed so far, in order
    locatorCalls,   \* number of findChromePath calls
    docTokens,      \* const tokens (mutated by extractHeadings)
    tocFilterRegex, \* const tocFilterRegex
    docToc,         \* const toc
    bodyContent,    \* const bodyContent
    tocHtml,        \* const tocHtml
    fullHtml,       \* const fullHtml
    \* ---- cleanMarkdownContent on its own ------------------------------
    cpc,            \* "idle", "start", "cleaned", "twice"
    cleanIn,        \* the text given to cleanMarkdownContent
    cleanOut,       \* cleanMarkdownContent(cleanIn)
    cleanTwice,     \* cleanMarkdownContent(cleanOut)
    \* ---- extractHeadings and generateTocHtml on their own -------------
    hpc,            \* "idle", "start", "extracted", "rendered", "again"
    hInput,         \* the token array as it was passed in
    hOptions,       \* the options argument of extractHeadings
    hTokens,        \* the token array (mutated in place)
    hFilter,        \* the RegExp object options.tocFilter refers to
    hToc,           \* the entries returned by the first call
    hTitle,         \* the title argument of generateTocHtml
    hTocHtml,       \* generateTocHtml(hToc, hTitle)
    hToc2,          \* the entries returned by a second call
    \* ---- several invocations of convertMdToPdf in one process ---------
    runs,           \* per invocation: position, arguments, locals, result
    markedOptions,  \* the options of the marked module (process-wide)
    started,        \* the invocations in the order they were called
    \* ---- cli.js --------------------------------------------------------
    cliPc,          \* position in cli.js
    cliInput,       \* program.args[0]
    cliOptions,     \* program.opts(): output, toc
    cliOutputFile,  \* const outputFile
    cliCall,        \* <<arguments>> of the convertMdToPdf call
    cliResult,      \* <<what convertMdToPdf did>>
    cliLog,         \* the result lines printed
    cliWritten,     \* the files the conversion wrote
    exitCode        \* <<code>> once the process has ended

convVars == <<inputFile, outputFile, options, platform, disk, fileText,
              installed, pc, inputPath, outputPath, chromePath, rawContent,
              cleanContent, browser, launchedWith, error, result, thrown,
              trace, locatorCalls, docTokens, tocFilterRegex, docToc, bodyContent,
              tocHtml, fullHtml>>
docVars == <<docTokens, tocFilterRegex, docToc, bodyContent, tocHtml, fullHtml>>
cleanVars == <<cpc, cleanIn, cleanOut, cleanTwice>>
headVars == <<hpc, hInput, hOptions, hTokens, hFilter, hToc, hTitle, hTocHtml,
              hToc2>>
runVars == <<runs, markedOptions, started>>
cliVars == <<cliPc, cliInput, cliOptions, cliOutputFile, cliCall, cliResult,
             cliLog, cliWritten, exitCode>>
vars == <<convVars, cleanVars, headVars, docVars, runVars, cliVars>>

(***************************************************************************)
(* Texts                                                                   *)
(***************************************************************************)
\* The character class [\u200B-\u200D\uFEFF].
ZeroWidth == {"U+200B", "U+200C", "U+200D", "U+FEFF"}

\* s.substring(i, i + Len(p)) === p
MatchAt(s, i, p) ==
    /\ i >= 1
    /\ i + Len(p) - 1 <= Len(s)
    /\ \A k \in 1..Len(p) : s[i + k - 1] = p[k]

\* s contains p as a substring
Contains(s, p) == \E i \in 1..Len(s) : MatchAt(s, i, p)

Dashes == <<"-", "-", "-">>
BareAmp == <<" ", "&", " ">>
AmpEntity == <<" ", "&", "a", "m", "p", ";", " ">>

\* rawContent.replace(/[\u200B-\u200D\uFEFF]/g, '')
IsVisible(c) == c \notin ZeroWidth
StripInvisible(s) == SelectSeq(s, IsVisible)

\* text.replace(/ & /g, ' &amp; '): the global scan from position i.  After
\* a match the scan resumes behind the matched text, so a space is consumed
\* by at most one match.
RECURSIVE EscapeFrom(_, _)
EscapeFrom(s, i) ==
    IF i > Len(s) THEN <<>>
    ELSE IF MatchAt(s, i, BareAmp)
         THEN AmpEntity \o EscapeFrom(s, i + 3)
         ELSE <<s[i]>> \o EscapeFrom(s, i + 1)

\* text.replace(/ & /, ' &amp; '), the g flag forgotten: the first
\* occurrence only.
EscapeFirstAmpersand(s) ==
    IF Contains(s, BareAmp)
    THEN LET i == CHOOSE j \in 1..Len(s) :
                      /\ MatchAt(s, j, BareAmp)
                      /\ \A k \in 1..(j - 1) : ~MatchAt(s, k, BareAmp)
         IN  SubSeq(s, 1, i - 1) \o AmpEntity \o SubSeq(s, i + 3, Len(s))
    ELSE s

EscapeAmpersands(s) == EscapeFrom(s, 1)

\* The positions at which the closing '---' of /^---[\s\S]*?---/ can match:
\* the text starts with '---' and a further '---' starts at j >= 4.
ClosingAt(s) == IF MatchAt(s, 1, Dashes)
                THEN {j \in 4..Len(s) : MatchAt(s, j, Dashes)}
                ELSE {}

\* /^---[\s\S]*?---/ matches s
HasFrontMatter(s) == ClosingAt(s) # {}

\* Index of the last character of the match: the lazy quantifier stops at
\* the first closing '---'.
FrontMatterEnd(s) ==
    (CHOOSE j \in ClosingAt(s) : \A k \in ClosingAt(s) : j <= k) + 2

\* text.replace(/^---[\s\S]*?---/, '')
RemoveFrontMatter(s) ==
    IF HasFrontMatter(s)
    THEN SubSeq(s, FrontMatterEnd(s) + 1, Len(s))
    ELSE s

cleanMarkdownContent(rawText) ==
    RemoveFrontMatter(EscapeAmpersands(StripInvisible(rawText)))


(***************************************************************************)
(* Headings: clean text, anchor, filter, rewrite, table of contents        *)
(*                                                                         *)
(* Markup is a sequence whose elements are the characters of interpolated  *)
(* values and the literal chunks of the template strings.                  *)
(***************************************************************************)
\* text.replace(/pat/g, rep) for a literal pat, scanning from position i.
RECURSIVE ReplaceAllFrom(_, _, _, _)
ReplaceAllFrom(s, i, pat, rep) ==
    IF i > Len(s) THEN <<>>
    ELSE IF MatchAt(s, i, pat)
         THEN rep \o ReplaceAllFrom(s, i + Len(pat), pat, rep)
         ELSE <<s[i]>> \o ReplaceAllFrom(s, i + 1, pat, rep)

\* The characters String.prototype.trim removes.
WhiteSpace == {" ", "\t", "\n", "\r", "U+00A0", "U+FEFF"}

\* s.trim()
Trim(s) ==
    LET kept == {i \in 1..Len(s) : s[i] \notin WhiteSpace}
    IN  IF kept = {} THEN <<>>
        ELSE SubSeq(s, CHOOSE i \in kept : \A k \in kept : i <= k,
                       CHOOSE i \in kept : \A k \in kept : i >= k)

\* token.text.replace(/\*\*/g, '').replace(/\*/g, '') with the trim left out.
CleanTextUntrimmed(text) ==
    ReplaceAllFrom(ReplaceAllFrom(text, 1, <<"*", "*">>, <<>>), 1, <<"*">>, <<>>)

\* token.text.replace(/\*\*/g, '').replace(/\*/g, '').trim()
CleanText(text) ==
    Trim(ReplaceAllFrom(ReplaceAllFrom(text, 1, <<"*", "*">>, <<>>),
                        1, <<"*">>, <<>>))

UpperCase == {"A", "B", "C", "D", "E", "F", "G", "H", "I", "J", "K", "L", "M",
              "N", "O", "P", "Q", "R", "S", "T", "U", "V", "W", "X", "Y", "Z"}
LowerCase == {"a", "b", "c", "d", "e", "f", "g", "h", "i", "j", "k", "l", "m",
              "n", "o", "p", "q", "r", "s", "t", "u", "v", "w", "x", "y", "z"}
DigitChars == <<"0", "1", "2", "3", "4", "5", "6", "7", "8", "9">>

LowerOf == [A |-> "a", B |-> "b", C |-> "c", D |-> "d", E |-> "e", F |-> "f",
            G |-> "g", H |-> "h", I |-> "i", J |-> "j", K |-> "k", L |-> "l",
            M |-> "m", N |-> "n", O |-> "o", P |-> "p", Q |-> "q", R |-> "r",
            S |-> "s", T |-> "t", U |-> "u", V |-> "v", W |-> "w", X |-> "x",
            Y |-> "y", Z |-> "z"]

\* c.toLowerCase()
LowerChar(c) == IF c \in UpperCase THEN LowerOf[c] ELSE c

\* s.toLowerCase()
ToLowerCase(s) == [i \in 1..Len(s) |-> LowerChar(s[i])]

\* The character class \w.
IsWordChar(c) ==
    c \in UpperCase \cup LowerCase \cup {DigitChars[i] : i \in 1..10} \cup {"_"}

\* s.replace(/[^\w]+/g, '-') from position i: a maximal run of characters
\* outside \w becomes one hyphen.
RECURSIVE HyphenateFrom(_, _)
HyphenateFrom(s, i) ==
    IF i > Len(s) THEN <<>>
    ELSE IF IsWordChar(s[i]) THEN <<s[i]>> \o HyphenateFrom(s, i + 1)
    ELSE LET later == {j \in (i + 1)..Len(s) : IsWordChar(s[j])}
         IN  IF later = {} THEN <<"-">>
             ELSE <<"-">> \o
                  HyphenateFrom(s, CHOOSE j \in later : \A k \in later : j <= k)

\* s.replace(/[^\w]/g, '-'), the + forgotten: one hyphen per character.
AnchorPerCharacter(cleanText) ==
    [i \in 1..Len(cleanText) |->
        IF IsWordChar(LowerChar(cleanText[i])) THEN LowerChar(cleanText[i])
        ELSE "-"]

\* cleanText.toLowerCase().replace(/[^\w]+/g, '-')
Anchor(cleanText) == HyphenateFrom(ToLowerCase(cleanText), 1)

\* `${n}` for a natural number n
RECURSIVE NumberText(_)
NumberText(n) ==
    IF n < 10 THEN <<DigitChars[n + 1]>>
    ELSE NumberText(n \div 10) \o <<DigitChars[(n % 10) + 1]>>

\* `<h${depth} id="${anchor}">${cleanText}</h${depth}>`
HeadingHtml(depth, anchor, cleanText) ==
    <<"<h">> \o NumberText(depth) \o <<" id=\"">> \o anchor \o <<"\">">>
        \o cleanText \o <<"</h">> \o NumberText(depth) \o <<">">>

\* A RegExp object: the alternatives of its pattern (literal words), its
\* flags, and its lastIndex.
RegExp(alts, flags) == [alts |-> alts, flags |-> flags, lastIndex |-> 0]

\* The alternatives of re that match text at position p (1-based).
AltsAt(re, text, p) ==
    {k \in 1..Len(re.alts) :
        IF "i" \in re.flags
        THEN MatchAt(ToLowerCase(text), p, ToLowerCase(re.alts[k]))
        ELSE MatchAt(text, p, re.alts[k])}

\* lastIndex is read and written only under the g or y flag.
Stateful(re) == re.flags \cap {"g", "y"} # {}

\* re.test(text): whether a match exists, and the object afterwards.  The
\* search starts at lastIndex under g or y (at that position only under
\* y); a match sets lastIndex behind it, a failure resets it to 0.
RegExpTest(re, text) ==
    LET start == IF Stateful(re) THEN re.lastIndex + 1 ELSE 1
        tried == IF "y" \in re.flags THEN {start} \cap (1..Len(text))
                 ELSE start..Len(text)
        hits  == {p \in tried : AltsAt(re, text, p) # {}}
    IN  IF hits = {}
        THEN [matched |-> FALSE,
              re |-> IF Stateful(re) THEN [re EXCEPT !.lastIndex = 0] ELSE re]
        ELSE LET p == CHOOSE q \in hits : \A r \in hits : q <= r
                 k == CHOOSE a \in AltsAt(re, text, p) :
                          \A b \in AltsAt(re, text, p) : a <= b
             IN  [matched |-> TRUE,
                  re |-> IF Stateful(re)
                         THEN [re EXCEPT !.lastIndex = p - 1 + Len(re.alts[k])]
                         ELSE re]

\* /Topic|Summary|Section|Detailed/i
DefaultFilterAlts == << <<"T", "o", "p", "i", "c">>,
                        <<"S", "u", "m", "m", "a", "r", "y">>,
                        <<"S", "e", "c", "t", "i", "o", "n">>,
                        <<"D", "e", "t", "a", "i", "l", "e", "d">> >>
DefaultFilterRegExp == RegExp(DefaultFilterAlts, {"i"})

\* const { maxDepth = 4 } = options
DefaultMaxDepth == 4

\* A token of the lexer: its type, depth (0 when it has none), text and
\* raw source.
Token(type, depth, text, raw) ==
    [type |-> type, depth |-> depth, text |-> text, raw |-> raw]

\* token.type === 'heading': no depth ceiling at all.
IsIndexedAtAnyDepth(token, maxDepth) == token.type = "heading"

\* token.type === 'heading' && token.depth < maxDepth: the ceiling excluded.
IsIndexedBelow(token, maxDepth) ==
    token.type = "heading" /\ token.depth < maxDepth

\* token.type === 'heading' && token.depth <= maxDepth
IsIndexed(token, maxDepth) ==
    token.type = "heading" /\ token.depth <= maxDepth

\* token.raw = token.text = `<h.. id="..">..</h..>`: the source text of the
\* block overwritten too.
RewriteWithRaw(token, listed) ==
    [token EXCEPT !.type = "html",
                  !.text = HeadingHtml(token.depth,
                                       Anchor(CleanText(token.text)),
                                       CleanText(token.text)),
                  !.raw = HeadingHtml(token.depth,
                                      Anchor(CleanText(token.text)),
                                      CleanText(token.text))]

\* token.text = `<h.. id="..">..</h..>` with token.type left as it is.
RewriteKeepingType(token, listed) ==
    [token EXCEPT !.text = HeadingHtml(token.depth,
                                       Anchor(CleanText(token.text)),
                                       CleanText(token.text))]

\* The id made unique per level: `${anchor}-${token.depth}`.
RewriteWithLevelInId(token, listed) ==
    [token EXCEPT !.type = "html",
                  !.text = HeadingHtml(token.depth,
                                       Anchor(CleanText(token.text))
                                           \o <<"-">> \o NumberText(token.depth),
                                       CleanText(token.text))]

\* The rewrite moved inside if (isImportant): only listed headings are
\* rewritten.
RewriteIfListed(token, listed) ==
    IF listed
    THEN [token EXCEPT !.type = "html",
                       !.text = HeadingHtml(token.depth,
                                            Anchor(CleanText(token.text)),
                                            CleanText(token.text))]
    ELSE token

\* token.type = 'html'; token.text = `<h.. id="..">..</h..>`; the statement
\* stands behind the if (isImportant) block, so listed is not consulted.
Rewrite(token, listed) ==
    [token EXCEPT !.type = "html",
                  !.text = HeadingHtml(token.depth,
                                       Anchor(CleanText(token.text)),
                                       CleanText(token.text))]

\* The entry's anchor computed from token.text instead of cleanText.
TocEntryRawAnchor(token) ==
    [anchor |-> Anchor(token.text),
     level  |-> token.depth,
     text   |-> CleanText(token.text)]

\* { anchor: anchor, level: token.depth, text: cleanText }
TocEntry(token) ==
    [anchor |-> Anchor(CleanText(token.text)),
     level  |-> token.depth,
     text   |-> CleanText(token.text)]

\* toc.unshift(entry) instead of toc.push(entry)
PushFront(toc, entry) == <<entry>> \o toc

\* toc.push(entry)
Push(toc, entry) == Append(toc, entry)

\* tokens.forEach(token => { ... }) from index i on: the tokens, the filter
\* object and the entries after the remaining iterations.
RECURSIVE ExtractFrom(_, _, _, _, _)
ExtractFrom(tokens, i, re, maxDepth, toc) ==
    IF i > Len(tokens)
    THEN [tokens |-> tokens, toc |-> toc, re |-> re]
    ELSE IF IsIndexed(tokens[i], maxDepth)
         THEN LET isImportant == RegExpTest(re, CleanText(tokens[i].text))
              IN  ExtractFrom(
                      [tokens EXCEPT ![i] = Rewrite(@, isImportant.matched)],
                      i + 1, isImportant.re, maxDepth,
                      IF isImportant.matched
                      THEN Push(toc, TocEntry(tokens[i]))
                      ELSE toc)
         ELSE ExtractFrom(tokens, i + 1, re, maxDepth, toc)

\* extractHeadings(tokens, { tocFilter: re, maxDepth })
extractHeadings(tokens, re, maxDepth) ==
    ExtractFrom(tokens, 1, re, maxDepth, <<>>)

\* entry.level >= 3 ? 'toc-indent' : ''
IndentClassFromThree(entry) ==
    IF entry.level >= 3 THEN <<"toc-indent">> ELSE <<>>

\* entry.level > 3 ? 'toc-indent' : ''
IndentClass(entry) == IF entry.level > 3 THEN <<"toc-indent">> ELSE <<>>

\* `<li class="${indentClass}"><a href="#${entry.anchor}">${entry.text}</a></li>`
TocItem(entry) ==
    <<"<li class=\"">> \o IndentClass(entry) \o <<"\"><a href=\"#">>
        \o entry.anchor \o <<"\">">> \o entry.text \o <<"</a></li>">>

RECURSIVE TocItems(_)
TocItems(toc) ==
    IF toc = <<>> THEN <<>> ELSE TocItem(Head(toc)) \o TocItems(Tail(toc))

TocOpen == "\n    <div class=\"toc\">\n        <h1>"
TocListOpen == "</h1>\n        <ul>\n    "
TocListClose == "</ul></div>"
PageBreak == "<div class=\"page-break\"></div>"

\* title = 'Table of Contents'
DefaultTocTitle == <<"Table of Contents">>

\* An empty list is answered with the empty fragment.
generateTocHtmlUnlessEmpty(toc, title) ==
    IF toc = <<>> THEN <<>>
    ELSE <<TocOpen>> \o title \o <<TocListOpen>> \o TocItems(toc) \o <<TocListClose, PageBreak>>

\* generateTocHtml(toc, title)
generateTocHtml(toc, title) ==
    <<TocOpen>> \o title \o <<TocListOpen>> \o TocItems(toc) \o <<TocListClose, PageBreak>>

(***************************************************************************)
(* SpecClean: cleanMarkdownContent on bounded texts                        *)
(***************************************************************************)
\* Number of pieces a text is built from.
MaxPieces == 4

\* The pieces: single characters, and the two patterns of the function as
\* whole pieces so that texts with several of them fit the bound.
Pieces == { <<" ">>, <<"&">>, <<"a">>, <<"\n">>, <<"U+200B">>, <<"U+FEFF">>,
            Dashes, BareAmp }

RECURSIVE TextsOf(_)
TextsOf(n) == IF n = 0 THEN {<<>>}
              ELSE LET shorter == TextsOf(n - 1)
                   IN  shorter \cup {s \o p : s \in shorter, p \in Pieces}

\* "---\nkey: v\n---\nBody"
FrontMatterExample ==
    <<"-", "-", "-", "\n", "k", "e", "y", ":", " ", "v", "\n",
      "-", "-", "-", "\n", "B", "o", "d", "y">>
ExampleBody == <<"B", "o", "d", "y">>

CleanInputs ==
    TextsOf(MaxPieces) \cup {FrontMatterExample, <<"U+FEFF">> \o FrontMatterExample}

CleanIdle == /\ cpc = "idle"
             /\ cleanIn = <<>>
             /\ cleanOut = <<>>
             /\ cleanTwice = <<>>

\* cleanMarkdownContent(cleanIn)
CleanFirst ==
    /\ cpc = "start"
    /\ cleanOut' = cleanMarkdownContent(cleanIn)
    /\ cpc' = "cleaned"
    /\ UNCHANGED <<cleanIn, cleanTwice, convVars, headVars, runVars, cliVars>>

\* cleanMarkdownContent(cleanMarkdownContent(cleanIn))
CleanSecond ==
    /\ cpc = "cleaned"
    /\ cleanTwice' = cleanMarkdownContent(cleanOut)
    /\ cpc' = "twice"
    /\ UNCHANGED <<cleanIn, cleanOut, convVars, headVars, runVars, cliVars>>

(***************************************************************************)
(* SpecHeadings: extractHeadings and generateTocHtml on bounded token      *)
(* arrays                                                                  *)
(***************************************************************************)
\* Number of tokens in an array.
MaxTokens == 3

Topic == <<"T", "o", "p", "i", "c">>

\* Heading texts: a plain one, the same one under unbalanced emphasis, one
\* with punctuation, emphasis and surrounding blanks, one in lower case.
HeadingTexts == { Topic,
                  <<"*", "*", "T", "o", "p", "i", "c", "*">>,
                  <<" ", "Q", ".", "1", ")", " ", "*", "a", "*", " ">>,
                  <<"t", "o", "p", "i", "c", "s", "!">> }


RECURSIVE Hashes(_)
Hashes(n) == IF n = 0 THEN <<>> ELSE <<"#">> \o Hashes(n - 1)

HeadingToken(depth, text) ==
    Token("heading", depth, text,
          Hashes(depth) \o <<" ">> \o text \o <<"\n", "\n">>)
ParagraphToken(text) == Token("paragraph", 0, text, text \o <<"\n", "\n">>)

\* Every text at depth 3, two of them at depth 4, the plain one at depth 5,
\* and a paragraph with the plain text.
TokenChoices ==
    {HeadingToken(3, t) : t \in HeadingTexts}
        \cup {HeadingToken(4, Topic),
              HeadingToken(4, <<" ", "Q", ".", "1", ")", " ", "*", "a", "*", " ">>),
              HeadingToken(5, Topic),
              ParagraphToken(Topic)}

RECURSIVE TokenArrays(_)
TokenArrays(n) ==
    IF n = 0 THEN {<<>>}
    ELSE LET shorter == TokenArrays(n - 1)
         IN  shorter \cup {Append(a, t) : a \in shorter, t \in TokenChoices}

\* "**Q.1) Self-awareness**"
EmphasisExample ==
    <<"*", "*", "Q", ".", "1", ")", " ", "S", "e", "l", "f", "-", "a", "w",
      "a", "r", "e", "n", "e", "s", "s", "*", "*">>
\* "Q.1) Self-awareness"
EmphasisExampleClean ==
    <<"Q", ".", "1", ")", " ", "S", "e", "l", "f", "-", "a", "w", "a", "r",
      "e", "n", "e", "s", "s">>
\* "q-1-self-awareness"
EmphasisExampleAnchor ==
    <<"q", "-", "1", "-", "s", "e", "l", "f", "-", "a", "w", "a", "r", "e",
      "n", "e", "s", "s">>

\* 'Topic "a" <b>--c_D é'
MarkupExample ==
    <<"T", "o", "p", "i", "c", " ", "\"", "a", "\"", " ", "<", "b", ">",
      "-", "-", "c", "_", "D", " ", "é">>

HeadingInputs == TokenArrays(MaxTokens)
                    \cup {<<HeadingToken(3, EmphasisExample)>>,
                          <<HeadingToken(3, MarkupExample)>>}

\* Filters a caller may pass: the default, a case-sensitive one, and the
\* same word under the g and the y flag.
Filters == { DefaultFilterRegExp,
             RegExp(<< <<"t", "o", "p">>, <<"a">> >>, {}),
             RegExp(<<Topic>>, {"g", "i"}),
             RegExp(<<Topic>>, {"y"}) }

\* The options argument: both options, or maxDepth left out.
HeadingOptions == [tocFilter : Filters, maxDepth : {3}]
                      \cup [tocFilter : Filters]

\* const { maxDepth = 4 } = options
MaxDepthOf(opts) ==
    IF "maxDepth" \in DOMAIN opts THEN opts.maxDepth ELSE DefaultMaxDepth

TocTitles == {DefaultTocTitle, <<"T", "O", "C">>}

HeadIdle ==
    /\ hpc = "idle"
    /\ hInput = <<>>
    /\ hOptions = [tocFilter |-> DefaultFilterRegExp]
    /\ hTokens = <<>>
    /\ hFilter = DefaultFilterRegExp
    /\ hToc = <<>>
    /\ hTitle = <<>>
    /\ hTocHtml = <<>>
    /\ hToc2 = <<>>

\* const toc = extractHeadings(tokens, options);
HExtract ==
    /\ hpc = "start"
    /\ \E r \in {extractHeadings(hTokens, hFilter, MaxDepthOf(hOptions))} :
          /\ hTokens' = r.tokens
          /\ hFilter' = r.re
          /\ hToc' = r.toc
    /\ hpc' = "extracted"
    /\ UNCHANGED <<hInput, hOptions, hTitle, hTocHtml, hToc2,
                   convVars, cleanVars, runVars, cliVars>>

\* generateTocHtml(toc, title)
HRenderToc ==
    /\ hpc = "extracted"
    /\ \E title \in TocTitles :
          /\ hTitle' = title
          /\ hTocHtml' = generateTocHtml(hToc, title)
    /\ hpc' = "rendered"
    /\ UNCHANGED <<hInput, hOptions, hTokens, hFilter, hToc, hToc2,
                   convVars, cleanVars, runVars, cliVars>>

\* extractHeadings(tokens, options) once more, on the same array with the
\* same options object
HExtractAgain ==
    /\ hpc = "rendered"
    /\ \E r \in {extractHeadings(hTokens, hFilter, MaxDepthOf(hOptions))} :
          /\ hTokens' = r.tokens
          /\ hFilter' = r.re
          /\ hToc2' = r.toc
    /\ hpc' = "again"
    /\ UNCHANGED <<hInput, hOptions, hToc, hTitle, hTocHtml,
                   convVars, cleanVars, runVars, cliVars>>

NextHeadings == HExtract \/ HRenderToc \/ HExtractAgain

(***************************************************************************)
(* Paths, file system, browsers                                            *)
(***************************************************************************)
Path(abs, segs) == [abs |-> abs, segs |-> segs]

\* process.cwd()
Cwd == Path(TRUE, <<"work">>)

\* Normalisation of '.' and '..' segments, left to right.
RECURSIVE Normalize(_, _)
Normalize(segs, acc) ==
    IF segs = <<>> THEN acc
    ELSE IF Head(segs) = "." THEN Normalize(Tail(segs), acc)
    ELSE IF Head(segs) = ".."
         THEN Normalize(Tail(segs),
                        IF acc = <<>> THEN acc
                        ELSE SubSeq(acc, 1, Len(acc) - 1))
    ELSE Normalize(Tail(segs), Append(acc, Head(segs)))

\* path.resolve(p)
PathResolve(p) ==
    IF p.abs THEN Path(TRUE, Normalize(p.segs, <<>>))
    ELSE Path(TRUE, Normalize(Cwd.segs \o p.segs, <<>>))

InputFiles == { Path(FALSE, <<"notes.md">>),
                Path(TRUE, <<"docs", "notes.md">>) }
OutputFiles == { Path(FALSE, <<"out.pdf">>),
                 Path(FALSE, <<"..", "out", "notes.pdf">>),
                 Path(TRUE, <<"out", "notes.pdf">>) }
NoFile == Path(FALSE, <<>>)

\* What lies at a path: nothing, a regular file, or a directory.
DiskKinds == {"missing", "file", "dir"}
Disks == [{PathResolve(f) : f \in InputFiles} -> DiskKinds]

\* fs.existsSync(p)
ExistsSync(p) == p \in DOMAIN disk /\ disk[p] # "missing"

\* The falsy values of options.chromePath (undefined, null, ''): the option
\* is absent.
NoPath == ""

CHROME_PATHS ==
    [ linux  |-> << "/usr/bin/google-chrome", "/usr/bin/chromium-browser",
                    "/usr/bin/chromium", "/snap/bin/chromium",
                    "/usr/bin/microsoft-edge" >>,
      darwin |-> << "/Applications/Google Chrome.app/Contents/MacOS/Google Chrome",
                    "/Applications/Microsoft Edge.app/Contents/MacOS/Microsoft Edge",
                    "/Applications/Chromium.app/Contents/MacOS/Chromium" >> ]

Platforms == {"linux", "darwin", "freebsd"}

\* CHROME_PATHS[platform] || []
PlatformPaths == IF platform \in DOMAIN CHROME_PATHS
                 THEN CHROME_PATHS[platform] ELSE <<>>

\* Values of options.chromePath: absent, an installed browser outside the
\* common locations, a path at which nothing is installed.
CustomChromePaths == {NoPath, "/opt/chrome/chrome", "/no/such/chrome"}

\* The sets of browser executables a machine may have.
InstalledChoices ==
    { {},
      {"/usr/bin/chromium"},
      {"/usr/bin/chromium-browser", "/snap/bin/chromium"},
      {"/Applications/Chromium.app/Contents/MacOS/Chromium"},
      {"/opt/chrome/chrome"},
      {"/opt/chrome/chrome", "/usr/bin/google-chrome",
       "/Applications/Microsoft Edge.app/Contents/MacOS/Microsoft Edge"} }

\* findChromePath(): the first common location at which a browser exists,
\* null if there is none.
findChromePath ==
    LET hits == {i \in 1..Len(PlatformPaths) : PlatformPaths[i] \in installed}
    IN  IF hits = {} THEN NoPath
        ELSE PlatformPaths[CHOOSE i \in hits : \A k \in hits : i <= k]

\* The operands of || exchanged: the locator is asked first.
ResolveChromePathLocatorFirst ==
    IF findChromePath # NoPath THEN findChromePath
    ELSE options.chromePath

\* customChromePath || findChromePath()
ResolveChromePath ==
    IF options.chromePath # NoPath THEN options.chromePath
    ELSE findChromePath

\* findChromePath() is evaluated only if the left operand of || is falsy.
LocatorEvaluated == options.chromePath = NoPath

\* Values of options.tocFilter: the default, a custom pattern, and a
\* pattern that is not a regular expression.
DefaultTocFilter == "Topic|Summary|Section|Detailed"
TocFilters == {DefaultTocFilter, "Chapter|Unit", "("}

\* new RegExp(p, 'i') constructs a pattern (it throws a SyntaxError
\* otherwise).
ValidPattern(p) == p # "("

\* Every combination under the default title, and a custom title with
\* the other options at their defaults.
OptionValues ==
    [chromePath : CustomChromePaths, noToc : BOOLEAN, tocFilter : TocFilters,
     tocTitle : {DefaultTocTitle}]
        \cup [chromePath : {NoPath}, noToc : BOOLEAN,
              tocFilter : {DefaultTocFilter}, tocTitle : {<<"T", "O", "C">>}]

\* The alternatives of the valid patterns of TocFilters.
PatternAlts(p) ==
    IF p = DefaultTocFilter THEN DefaultFilterAlts
    ELSE << <<"C", "h", "a", "p", "t", "e", "r">>, <<"U", "n", "i", "t">> >>

\* new RegExp(tocFilter, 'i')
CompileRegExp(p) == RegExp(PatternAlts(p), {"i"})

\* "### Topic One\n\nSome text.\n\n##### Deep Heading\n\nMore text."
TopicDocument ==
    <<"#", "#", "#", " ", "T", "o", "p", "i", "c", " ", "O", "n", "e",
      "\n", "\n", "S", "o", "m", "e", " ", "t", "e", "x", "t", ".",
      "\n", "\n", "#", "#", "#", "#", "#", " ", "D", "e", "e", "p",
      " ", "H", "e", "a", "d", "i", "n", "g", "\n", "\n", "M", "o",
      "r", "e", " ", "t", "e", "x", "t", ".">>

TopicOne == <<"T", "o", "p", "i", "c", " ", "O", "n", "e">>
TopicOneAnchor == <<"t", "o", "p", "i", "c", "-", "o", "n", "e">>
DeepHeading == <<"D", "e", "e", "p", " ", "H", "e", "a", "d", "i", "n",
                 "g">>

\* Texts of the input file.
FileTexts == { <<"a", " ", "&", " ", "a">>,
               <<"U+FEFF">> \o FrontMatterExample,
               TopicDocument }


(***************************************************************************)
(* Spec: one invocation of convertMdToPdf                                  *)
(***************************************************************************)
\* text.split('\n')
RECURSIVE SplitLines(_)
SplitLines(text) ==
    LET nl == {i \in 1..Len(text) : text[i] = "\n"}
    IN  IF nl = {} THEN <<text>>
        ELSE LET n == CHOOSE i \in nl : \A k \in nl : i <= k
             IN  <<SubSeq(text, 1, n - 1)>>
                     \o SplitLines(SubSeq(text, n + 1, Len(text)))

IsBlank(line) == \A i \in 1..Len(line) : line[i] \in WhiteSpace

\* Number of '#' a line begins with.
HashCount(line) ==
    LET other == {i \in 1..Len(line) : line[i] # "#"}
    IN  IF other = {} THEN Len(line)
        ELSE (CHOOSE i \in other : \A k \in other : i <= k) - 1

\* An ATX heading: one to six '#', then a blank or the end of the line.
IsHeadingLine(line) ==
    /\ HashCount(line) \in 1..6
    /\ (Len(line) = HashCount(line) \/ line[HashCount(line) + 1] = " ")

ParagraphOf(para) ==
    IF para = <<>> THEN <<>>
    ELSE <<Token("paragraph", 0, para, para \o <<"\n">>)>>

\* The block tokens of the lines: heading lines become heading tokens,
\* runs of other non-blank lines paragraph tokens; para is the paragraph
\* being collected.
RECURSIVE LexLines(_, _)
LexLines(lines, para) ==
    IF lines = <<>> THEN ParagraphOf(para)
    ELSE LET line == Head(lines)
         IN  IF IsBlank(line)
             THEN ParagraphOf(para) \o LexLines(Tail(lines), <<>>)
             ELSE IF IsHeadingLine(line)
             THEN ParagraphOf(para)
                    \o << Token("heading", HashCount(line),
                                Trim(SubSeq(line, HashCount(line) + 1, Len(line))),
                                line \o <<"\n">>) >>
                    \o LexLines(Tail(lines), <<>>)
             ELSE LexLines(Tail(lines),
                           IF para = <<>> THEN line
                           ELSE para \o <<"\n">> \o line)

\* marked.lexer(text), for documents of headings and paragraphs
Lexer(text) == LexLines(SplitLines(text), <<>>)

\* marked.parser(tokens): an html token is emitted as its text, a heading
\* and a paragraph as their element.
RECURSIVE Parser(_)
Parser(toks) ==
    IF toks = <<>> THEN <<>>
    ELSE LET t == Head(toks)
         IN  (CASE t.type = "html" -> t.text
                [] t.type = "heading" ->
                      <<"<h">> \o NumberText(t.depth) \o <<">">> \o t.text
                          \o <<"</h">> \o NumberText(t.depth) \o <<">\n">>
                [] OTHER -> <<"<p>">> \o t.text \o <<"</p>\n">>)
                 \o Parser(Tail(toks))

\* generateTocHtml(toc, tocTitle) whatever noToc says.
TocFragmentAlways == generateTocHtml(docToc, options.tocTitle)

\* noToc ? '' : generateTocHtml(toc, tocTitle)
TocFragment ==
    IF options.noToc THEN <<>> ELSE generateTocHtml(docToc, options.tocTitle)

\* The pieces of the document template and of lib/styles.js.
highlightTheme == "https://cdnjs.cloudflare.com/ajax/libs/highlight.js/11.7.0/styles/arduino-light.min.css"
mathJaxUrl == "https://cdn.jsdelivr.net/npm/mathjax@3/es5/tex-mml-chtml.js"
defaultStyles == "defaultStyles"
DocHead == "<!DOCTYPE html><html><head><meta charset=\"UTF-8\"><link rel=\"stylesheet\" href=\""
DocMathJax == "\"><script>window.MathJax = ...</script><script id=\"MathJax-script\" async src=\""
DocStyle == "\"></script><style>"
DocBody == "</style></head><body>"
DocEnd == "</body></html>"

\* generateFullHtml(tocHtml, bodyContent, { customStyles })
generateFullHtml(tocFragment, body, customStyles) ==
    <<DocHead, highlightTheme, DocMathJax, mathJaxUrl, DocStyle, defaultStyles>>
        \o customStyles \o <<DocBody>> \o tocFragment \o body \o <<DocEnd>>

Message(text, file, cause) == [text |-> text, file |-> file, cause |-> cause]

\* `Input file not found: "${inputFile}"`
InputNotFoundMessage == Message("Input file not found", inputFile, "")
\* 'Chrome/Chromium not found. Please install Chrome or specify path ...'
ChromeNotFoundMessage == Message("Chrome/Chromium not found", NoFile, "")
\* `PDF generation failed: ${error.message}`
GenerationFailedMessage == Message("PDF generation failed", NoFile, error)
\* `PDF generated successfully: "${outputFile}"`
GeneratedMessage == Message("PDF generated successfully", outputFile, "")

\* { success: false, message }
FailureResult(msg) == [success |-> FALSE, message |-> msg]

\* { success: true, message, outputPath: outputFile }: the argument instead
\* of its resolution.
SuccessResultUnresolved ==
    [success |-> TRUE, message |-> GeneratedMessage, outputPath |-> outputFile]

\* { success: true, message, outputPath: outputPath }
SuccessResult ==
    [success |-> TRUE, message |-> GeneratedMessage, outputPath |-> outputPath]

\* The existence check left out.
InputMissingNeverChecked == FALSE

\* !fs.existsSync(inputPath)
InputMissing == ~ExistsSync(inputPath)

\* return value: the promise resolves
Return(value) ==
    /\ result' = <<value>>
    /\ pc' = "done"

\* an exception outside the try block: the promise rejects
Reject(cause) ==
    /\ thrown' = <<cause>>
    /\ pc' = "done"

\* an exception inside the try block: control passes to the catch clause
Raise(cause) ==
    /\ error' = cause
    /\ pc' = "catch"

Did(stage) == trace' = Append(trace, stage)

(***************************************************************************)
(* Several invocations in one process (SpecTwo)                            *)
(***************************************************************************)
\* The invocations started by the caller.
MaxRuns == 2
Runs == 1..MaxRuns

\* The options marked starts with, and those configureMarked sets.
DefaultMarkedOptions == [highlight |-> "none", langPrefix |-> "language-"]
ConfiguredMarkedOptions ==
    [highlight |-> "highlight.js", langPrefix |-> "hljs language-"]

\* The arguments of an invocation: an existing file with this text, and
\* options.noToc; the other options are left at their defaults.
RunInputs == { [fileText |-> TopicDocument, noToc |-> FALSE],
               [fileText |-> TopicDocument, noToc |-> TRUE],
               [fileText |-> <<"a", " ", "&", " ", "a">>, noToc |-> FALSE] }

\* An invocation that has not run yet.
NewRun(in) ==
    [pc |-> "start", fileText |-> in.fileText, noToc |-> in.noToc,
     tokens |-> <<>>, toc |-> <<>>, fullHtml |-> <<>>,
     parsedUnder |-> DefaultMarkedOptions, pageContent |-> <<>>,
     error |-> "", result |-> <<>>]

\* noToc ? '' : generateTocHtml(toc, tocTitle)
TocFragmentOf(noToc, toc, title) ==
    IF noToc THEN <<>> ELSE generateTocHtml(toc, title)

\* Lines 290-296 on a file text under the default options: the tokens and
\* the entries.
IndexedOf(text) ==
    extractHeadings(Lexer(cleanMarkdownContent(text)),
                    CompileRegExp(DefaultTocFilter), DefaultMaxDepth)

\* Lines 290-301: the document assembled for a file text.
DocumentOf(text, noToc) ==
    generateFullHtml(TocFragmentOf(noToc, IndexedOf(text).toc, DefaultTocTitle),
                     Parser(IndexedOf(text).tokens), <<>>)

RunsIdle ==
    /\ runs = <<>>
    /\ markedOptions = DefaultMarkedOptions
    /\ started = <<>>

(***************************************************************************)
(* cli.js (SpecCli)                                                        *)
(***************************************************************************)
\* File names given on the command line.
NotesMd == <<"n", "o", "t", "e", "s", ".", "m", "d">>
NotesUpperMd == <<"N", "O", "T", "E", "S", ".", "M", "D">>
NotesMarkdown == <<"n", "o", "t", "e", "s", ".", "m", "a", "r", "k", "d", "o", "w", "n">>
NotesMdTxt == <<"n", "o", "t", "e", "s", ".", "m", "d", ".", "t", "x", "t">>
OutPdf == <<"o", "u", "t", ".", "p", "d", "f">>
PdfExtension == <<".", "p", "d", "f">>
MdExtension == <<".", "m", "d">>
CliInputs == {NotesMd, NotesUpperMd, NotesMarkdown, NotesMdTxt}

\* --output: left out (undefined), or a file name.
NoOutput == <<>>
CliOptionValues == [output : {NoOutput, OutPdf}, toc : BOOLEAN]

\* /\.md$/i matches name
EndsWithMd(name) ==
    /\ Len(name) >= 3
    /\ ToLowerCase(SubSeq(name, Len(name) - 2, Len(name))) = MdExtension

\* inputFile.replace(/\.md$/i, '.pdf')
ReplaceMdExtension(name) ==
    IF EndsWithMd(name)
    THEN SubSeq(name, 1, Len(name) - 3) \o PdfExtension
    ELSE name

\* options.output || inputFile.replace(/\.md$/i, '.pdf')
OutputFileFor(output, name) ==
    IF output # NoOutput THEN output ELSE ReplaceMdExtension(name)

\* What a convertMdToPdf call can do: resolve to a Success after writing
\* the PDF at outputFile, resolve to a Failure before or after the PDF was
\* written, or reject.
Outcomes(call) ==
    { [how |-> "returned", success |-> TRUE, wrote |-> {call.outputFile}],
      [how |-> "returned", success |-> FALSE, wrote |-> {}],
      [how |-> "returned", success |-> FALSE, wrote |-> {call.outputFile}],
      [how |-> "threw", success |-> FALSE, wrote |-> {}] }

\* The exit code whatever the result: no process.exit(1) in the else branch.
ExitCodeAlwaysZero(outcome) == 0

\* process.exit(1) in the else branch and in main().catch; otherwise main
\* returns and the process ends with code 0.
ExitCodeFor(outcome) ==
    IF outcome.how = "returned" /\ outcome.success THEN 0 ELSE 1

\* The line printed for the outcome.
LineFor(outcome) ==
    IF outcome.how = "threw" THEN "Unexpected error"
    ELSE IF outcome.success THEN "success" ELSE "Error"

CliIdle ==
    /\ cliPc = "idle"
    /\ cliInput = <<>>
    /\ cliOptions = [output |-> NoOutput, toc |-> TRUE]
    /\ cliOutputFile = <<>>
    /\ cliCall = <<>>
    /\ cliResult = <<>>
    /\ cliLog = <<>>
    /\ cliWritten = {}
    /\ exitCode = <<>>

\* Nothing tokenized, compiled or rendered yet.
DocEmpty ==
    /\ docTokens = <<>>
    /\ tocFilterRegex = DefaultFilterRegExp
    /\ docToc = <<>>
    /\ bodyContent = <<>>
    /\ tocHtml = <<>>
    /\ fullHtml = <<>>

ConvIdle ==
    /\ pc = "idle"
    /\ inputFile = NoFile /\ outputFile = NoFile
    /\ options = [chromePath |-> NoPath, noToc |-> FALSE,
                  tocFilter |-> DefaultTocFilter, tocTitle |-> DefaultTocTitle]
    /\ platform = "linux"
    /\ disk = [q \in {} |-> "missing"]
    /\ fileText = <<>>
    /\ installed = {}
    /\ inputPath = NoFile /\ outputPath = NoFile
    /\ chromePath = NoPath
    /\ rawContent = <<>> /\ cleanContent = <<>>
    /\ browser = "none" /\ launchedWith = NoPath
    /\ error = ""
    /\ result = <<>> /\ thrown = <<>>
    /\ trace = <<>>
    /\ locatorCalls = 0
    /\ DocEmpty

Init ==
    /\ inputFile \in InputFiles
    /\ outputFile \in OutputFiles
    /\ options \in OptionValues
    /\ platform \in Platforms
    /\ disk \in Disks
    /\ fileText \in FileTexts
    /\ installed \in InstalledChoices
    /\ pc = "start"
    /\ inputPath = NoFile /\ outputPath = NoFile
    /\ chromePath = NoPath
    /\ rawContent = <<>> /\ cleanContent = <<>>
    /\ browser = "none" /\ launchedWith = NoPath
    /\ error = ""
    /\ result = <<>> /\ thrown = <<>>
    /\ trace = <<>>
    /\ locatorCalls = 0
    /\ DocEmpty
    /\ CleanIdle
    /\ HeadIdle
    /\ RunsIdle
    /\ CliIdle

InitClean ==
    /\ ConvIdle
    /\ HeadIdle
    /\ RunsIdle
    /\ CliIdle
    /\ cpc = "start"
    /\ cleanIn \in CleanInputs
    /\ cleanOut = <<>>
    /\ cleanTwice = <<>>

InitHeadings ==
    /\ ConvIdle
    /\ CleanIdle
    /\ RunsIdle
    /\ CliIdle
    /\ hpc = "start"
    /\ hInput \in HeadingInputs
    /\ hOptions \in HeadingOptions
    /\ hTokens = hInput
    /\ hFilter = hOptions.tocFilter
    /\ hToc = <<>>
    /\ hTitle = <<>>
    /\ hTocHtml = <<>>
    /\ hToc2 = <<>>

InitTwo ==
    /\ ConvIdle
    /\ CleanIdle
    /\ HeadIdle
    /\ CliIdle
    /\ runs \in [Runs -> {NewRun(in) : in \in RunInputs}]
    /\ markedOptions = DefaultMarkedOptions
    /\ started = <<>>

InitCli ==
    /\ ConvIdle
    /\ CleanIdle
    /\ HeadIdle
    /\ RunsIdle
    /\ cliPc = "start"
    /\ cliInput \in CliInputs
    /\ cliOptions \in CliOptionValues
    /\ cliOutputFile = <<>>
    /\ cliCall = <<>>
    /\ cliResult = <<>>
    /\ cliLog = <<>>
    /\ cliWritten = {}
    /\ exitCode = <<>>

\* const inputPath = path.resolve(inputFile);
\* const outputPath = path.resolve(outputFile);
ResolvePaths ==
    /\ pc = "start"
    /\ inputPath' = PathResolve(inputFile)
    /\ outputPath' = PathResolve(outputFile)
    /\ pc' = "checkInput"
    /\ Did("resolve")
    /\ UNCHANGED <<inputFile, outputFile, options, platform, disk, fileText,
                   installed, chromePath, rawContent, cleanContent, browser,
                   launchedWith, error, result, thrown, locatorCalls,
                   cleanVars, headVars, runVars, cliVars, docVars>>

\* if (!fs.existsSync(inputPath)) return { success: false, ... }
CheckInput ==
    /\ pc = "checkInput"
    /\ Did("checkInput")
    /\ IF InputMissing
       THEN Return(FailureResult(InputNotFoundMessage))
       ELSE pc' = "findChrome" /\ UNCHANGED result
    /\ UNCHANGED <<inputFile, outputFile, options, platform, disk, fileText,
                   installed, inputPath, outputPath, chromePath, rawContent,
                   cleanContent, browser, launchedWith, error, thrown,
                   locatorCalls,
                   cleanVars, headVars, runVars, cliVars, docVars>>

\* const chromePath = customChromePath || findChromePath();
\* if (!chromePath) return { success: false, ... }
FindChrome ==
    /\ pc = "findChrome"
    /\ Did("findChrome")
    /\ chromePath' = ResolveChromePath
    /\ locatorCalls' = IF LocatorEvaluated THEN locatorCalls + 1
                       ELSE locatorCalls
    /\ IF chromePath' = NoPath
       THEN Return(FailureResult(ChromeNotFoundMessage))
       ELSE pc' = "configure" /\ UNCHANGED result
    /\ UNCHANGED <<inputFile, outputFile, options, platform, disk, fileText,
                   installed, inputPath, outputPath, rawContent, cleanContent,
                   browser, launchedWith, error, thrown,
                   cleanVars, headVars, runVars, cliVars, docVars>>

\* A statement of the synchronous part that only moves on.
Stage(from, name, to) ==
    /\ pc = from
    /\ Did(name)
    /\ pc' = to
    /\ UNCHANGED <<inputFile, outputFile, options, platform, disk, fileText,
                   installed, inputPath, outputPath, chromePath, rawContent,
                   cleanContent, browser, launchedWith, error, result, thrown,
                   locatorCalls,
                   cleanVars, headVars, runVars, cliVars, docVars>>

\* configureMarked();
ConfigureMarked == Stage("configure", "configureMarked", "read")

\* const rawContent = fs.readFileSync(inputPath, 'utf-8');
\* readFileSync throws when the path is not a readable regular file.
ReadFile ==
    /\ pc = "read"
    /\ Did("read")
    /\ IF disk[inputPath] = "file"
       THEN /\ rawContent' = fileText
            /\ pc' = "clean"
            /\ UNCHANGED thrown
       ELSE /\ Reject("EISDIR: illegal operation on a directory, read")
            /\ UNCHANGED rawContent
    /\ UNCHANGED <<inputFile, outputFile, options, platform, disk, fileText,
                   installed, inputPath, outputPath, chromePath, cleanContent,
                   browser, launchedWith, error, result, locatorCalls,
                   cleanVars, headVars, runVars, cliVars, docVars>>

\* const cleanContent = cleanMarkdownContent(rawContent);
Clean ==
    /\ pc = "clean"
    /\ Did("clean")
    /\ cleanContent' = cleanMarkdownContent(rawContent)
    /\ pc' = "lex"
    /\ UNCHANGED <<inputFile, outputFile, options, platform, disk, fileText,
                   installed, inputPath, outputPath, chromePath, rawContent,
                   browser, launchedWith, error, result, thrown, locatorCalls,
                   cleanVars, headVars, runVars, cliVars, docVars>>

\* What a statement of the synchronous part leaves alone besides pc, trace
\* and the values it computes.
SyncFrame ==
    UNCHANGED <<inputFile, outputFile, options, platform, disk, fileText,
                installed, inputPath, outputPath, chromePath, rawContent,
                cleanContent, browser, launchedWith, error, result,
                locatorCalls, cleanVars, headVars, runVars, cliVars>>

\* const tokens = marked.lexer(cleanContent);
Lex ==
    /\ pc = "lex"
    /\ Did("lex")
    /\ docTokens' = Lexer(cleanContent)
    /\ pc' = "compileFilter"
    /\ SyncFrame
    /\ UNCHANGED <<thrown, tocFilterRegex, docToc, bodyContent, tocHtml, fullHtml>>

\* const tocFilterRegex = new RegExp(tocFilter, 'i');
CompileFilter ==
    /\ pc = "compileFilter"
    /\ Did("compileFilter")
    /\ IF ValidPattern(options.tocFilter)
       THEN /\ tocFilterRegex' = CompileRegExp(options.tocFilter)
            /\ pc' = "extract"
            /\ UNCHANGED thrown
       ELSE /\ Reject("Invalid regular expression")
            /\ UNCHANGED tocFilterRegex
    /\ SyncFrame
    /\ UNCHANGED <<docTokens, docToc, bodyContent, tocHtml, fullHtml>>

\* const toc = extractHeadings(tokens, { tocFilter: tocFilterRegex });
ExtractHeadings ==
    /\ pc = "extract"
    /\ Did("extractHeadings")
    /\ \E r \in {extractHeadings(docTokens, tocFilterRegex, DefaultMaxDepth)} :
          /\ docTokens' = r.tokens
          /\ tocFilterRegex' = r.re
          /\ docToc' = r.toc
    /\ pc' = "parse"
    /\ SyncFrame
    /\ UNCHANGED <<thrown, bodyContent, tocHtml, fullHtml>>

\* The body rendered from the tokens as the lexer left them.
ParseBodyOfLexedTokens ==
    /\ pc = "parse"
    /\ Did("parse")
    /\ bodyContent' = Parser(Lexer(cleanContent))
    /\ pc' = "toc"
    /\ SyncFrame
    /\ UNCHANGED <<thrown, docTokens, tocFilterRegex, docToc, tocHtml, fullHtml>>

\* const bodyContent = marked.parser(tokens);
ParseBody ==
    /\ pc = "parse"
    /\ Did("parse")
    /\ bodyContent' = Parser(docTokens)
    /\ pc' = "toc"
    /\ SyncFrame
    /\ UNCHANGED <<thrown, docTokens, tocFilterRegex, docToc, tocHtml, fullHtml>>

\* const tocHtml = noToc ? '' : generateTocHtml(toc, tocTitle);
GenerateToc ==
    /\ pc = "toc"
    /\ Did("toc")
    /\ tocHtml' = TocFragment
    /\ pc' = "assemble"
    /\ SyncFrame
    /\ UNCHANGED <<thrown, docTokens, tocFilterRegex, docToc, bodyContent, fullHtml>>

\* const fullHtml = generateFullHtml(tocHtml, bodyContent);
Assemble ==
    /\ pc = "assemble"
    /\ Did("assemble")
    /\ fullHtml' = generateFullHtml(tocHtml, bodyContent, <<>>)
    /\ pc' = "launch"
    /\ SyncFrame
    /\ UNCHANGED <<thrown, docTokens, tocFilterRegex, docToc, bodyContent, tocHtml>>

\* An awaited call of the rendering engine inside the try block that
\* fulfils, or rejects with cause.
EngineStep(from, name, to, cause) ==
    /\ pc = from
    /\ \/ /\ Did(name)
          /\ pc' = to
          /\ UNCHANGED error
       \/ /\ Raise(cause)
          /\ UNCHANGED trace
    /\ UNCHANGED <<inputFile, outputFile, options, platform, disk, fileText,
                   installed, inputPath, outputPath, chromePath, rawContent,
                   cleanContent, browser, launchedWith, result, thrown,
                   locatorCalls,
                   cleanVars, headVars, runVars, cliVars, docVars>>

\* const browser = await puppeteer.launch({ executablePath: chromePath, ... });
\* The launch can succeed only if a browser exists at executablePath.
Launch ==
    /\ pc = "launch"
    /\ launchedWith' = chromePath
    /\ \/ /\ chromePath \in installed
          /\ browser' = "open"
          /\ Did("launch")
          /\ pc' = "newPage"
          /\ UNCHANGED error
       \/ /\ Raise("Failed to launch the browser process")
          /\ UNCHANGED <<browser, trace>>
    /\ UNCHANGED <<inputFile, outputFile, options, platform, disk, fileText,
                   installed, inputPath, outputPath, chromePath, rawContent,
                   cleanContent, result, thrown, locatorCalls,
                   cleanVars, headVars, runVars, cliVars, docVars>>

\* const page = await browser.newPage();
NewPage == EngineStep("newPage", "newPage", "setContent", "Protocol error")
           /\ UNCHANGED browser

\* await page.setContent(fullHtml, { waitUntil: 'networkidle0' });
SetContent == EngineStep("setContent", "setContent", "pdf", "Navigation timeout")
              /\ UNCHANGED browser

\* await page.pdf({ path: outputPath, ... });
Pdf == EngineStep("pdf", "pdf", "close", "Printing failed")
       /\ UNCHANGED browser

\* await browser.close();
Close ==
    /\ pc = "close"
    /\ \/ /\ browser' = "closed"
          /\ Did("close")
          /\ pc' = "return"
          /\ UNCHANGED error
       \/ /\ Raise("Protocol error")
          /\ UNCHANGED <<browser, trace>>
    /\ UNCHANGED <<inputFile, outputFile, options, platform, disk, fileText,
                   installed, inputPath, outputPath, chromePath, rawContent,
                   cleanContent, launchedWith, result, thrown, locatorCalls,
                   cleanVars, headVars, runVars, cliVars, docVars>>

\* return { success: true, message, outputPath };
ReturnSuccess ==
    /\ pc = "return"
    /\ Return(SuccessResult)
    /\ UNCHANGED <<inputFile, outputFile, options, platform, disk, fileText,
                   installed, inputPath, outputPath, chromePath, rawContent,
                   cleanContent, browser, launchedWith, error, thrown, trace,
                   locatorCalls,
                   cleanVars, headVars, runVars, cliVars, docVars>>

\* catch (error) { the whole engine sequence is started over }
CatchAndRetry ==
    /\ pc = "catch"
    /\ pc' = "launch"
    /\ error' = ""
    /\ UNCHANGED <<inputFile, outputFile, options, platform, disk, fileText,
                   installed, inputPath, outputPath, chromePath, rawContent,
                   cleanContent, browser, launchedWith, result, thrown, trace,
                   locatorCalls,
                   cleanVars, headVars, runVars, cliVars, docVars>>

\* catch (error) { return { success: false, message: ... }; }
Catch ==
    /\ pc = "catch"
    /\ Return(FailureResult(GenerationFailedMessage))
    /\ UNCHANGED <<inputFile, outputFile, options, platform, disk, fileText,
                   installed, inputPath, outputPath, chromePath, rawContent,
                   cleanContent, browser, launchedWith, error, thrown, trace,
                   locatorCalls,
                   cleanVars, headVars, runVars, cliVars, docVars>>

Next ==
    \/ ResolvePaths \/ CheckInput \/ FindChrome \/ ConfigureMarked
    \/ ReadFile \/ Clean \/ Lex \/ CompileFilter \/ ExtractHeadings
    \/ ParseBody \/ GenerateToc \/ Assemble
    \/ Launch \/ NewPage \/ SetContent \/ Pdf \/ Close
    \/ ReturnSuccess \/ Catch

Spec == Init /\ [][Next]_vars

NextClean == CleanFirst \/ CleanSecond

SpecClean == InitClean /\ [][NextClean]_vars

SpecHeadings == InitHeadings /\ [][NextHeadings]_vars

\* fullHtml kept in a variable of the module: the document handed over is
\* the one assembled last.
HandedDocumentOfModule(rs, order, i) == rs[order[Len(order)]].fullHtml

\* page.setContent(fullHtml, ...): fullHtml is a const of the invocation.
HandedDocument(rs, order, i) == rs[i].fullHtml

\* The exception each engine call of the try block can raise.
CauseOf == [launch |-> "Failed to launch the browser process",
            newPage |-> "Protocol error",
            setContent |-> "Navigation timeout",
            pdf |-> "Printing failed",
            close |-> "Protocol error"]
CallAfter(call) ==
    CASE call = "launch" -> "newPage"
      [] call = "newPage" -> "setContent"
      [] call = "setContent" -> "pdf"
      [] call = "pdf" -> "close"
      [] OTHER -> "done"

\* The call of convertMdToPdf: lines 266-305 run without a break up to the
\* first await, the one on puppeteer.launch.
RunCalled(i) ==
    /\ runs[i].pc = "start"
    /\ markedOptions' = ConfiguredMarkedOptions
    /\ \E r \in {IndexedOf(runs[i].fileText)} :
          runs' = [runs EXCEPT ![i] =
                      [@ EXCEPT !.pc = "launch",
                                !.tokens = r.tokens,
                                !.toc = r.toc,
                                !.parsedUnder = markedOptions',
                                !.fullHtml =
                                    generateFullHtml(
                                        TocFragmentOf(runs[i].noToc, r.toc,
                                                      DefaultTocTitle),
                                        Parser(r.tokens), <<>>)]]
    /\ started' = Append(started, i)
    /\ UNCHANGED <<convVars, cleanVars, headVars, cliVars>>

\* The awaited call of invocation i fulfils: the invocation goes on to the
\* next call, handing the document over when that call is setContent, and
\* returns the Success after close.
RunResumed(i) ==
    /\ runs[i].pc \in {"launch", "newPage", "setContent", "pdf", "close"}
    /\ runs' = [runs EXCEPT ![i] =
                  [@ EXCEPT !.pc = CallAfter(runs[i].pc),
                            !.pageContent =
                                IF CallAfter(runs[i].pc) = "setContent"
                                THEN HandedDocument(runs, started, i)
                                ELSE @,
                            !.result =
                                IF CallAfter(runs[i].pc) = "done"
                                THEN <<[success |-> TRUE]>>
                                ELSE @]]
    /\ UNCHANGED <<markedOptions, started, convVars, cleanVars, headVars,
                   cliVars>>

\* The awaited call of invocation i rejects: its catch clause returns the
\* Failure.
RunFailed(i) ==
    /\ runs[i].pc \in {"launch", "newPage", "setContent", "pdf", "close"}
    /\ runs' = [runs EXCEPT ![i] =
                  [@ EXCEPT !.pc = "done",
                            !.error = CauseOf[runs[i].pc],
                            !.result = <<[success |-> FALSE,
                                          cause |-> CauseOf[runs[i].pc]]>>]]
    /\ UNCHANGED <<markedOptions, started, convVars, cleanVars, headVars,
                   cliVars>>

NextTwo == \E i \in Runs : RunCalled(i) \/ RunResumed(i) \/ RunFailed(i)

SpecTwo == InitTwo /\ [][NextTwo]_vars

\* const outputFile = options.output || inputFile.replace(/\.md$/i, '.pdf');
CliDeriveOutput ==
    /\ cliPc = "start"
    /\ cliOutputFile' = OutputFileFor(cliOptions.output, cliInput)
    /\ cliPc' = "main"
    /\ UNCHANGED <<cliInput, cliOptions, cliCall, cliResult, cliLog,
                   cliWritten, exitCode, convVars, cleanVars, headVars,
                   runVars>>

\* main(): await convertMdToPdf(inputFile, outputFile, { noToc: !options.toc, ... })
CliConvert ==
    /\ cliPc = "main"
    /\ cliCall' = <<[inputFile |-> cliInput, outputFile |-> cliOutputFile,
                     noToc |-> ~cliOptions.toc]>>
    /\ cliPc' = "converting"
    /\ UNCHANGED <<cliInput, cliOptions, cliOutputFile, cliResult, cliLog,
                   cliWritten, exitCode, convVars, cleanVars, headVars,
                   runVars>>

\* The promise of convertMdToPdf settles.
CliConversionEnds ==
    /\ cliPc = "converting"
    /\ \E outcome \in Outcomes(cliCall[1]) :
          /\ cliResult' = <<outcome>>
          /\ cliWritten' = outcome.wrote
    /\ cliPc' = "report"
    /\ UNCHANGED <<cliInput, cliOptions, cliOutputFile, cliCall, cliLog,
                   exitCode, convVars, cleanVars, headVars, runVars>>

\* if (result.success) { log } else { log; process.exit(1) }, and
\* main().catch(error => { log; process.exit(1) })
CliReport ==
    /\ cliPc = "report"
    /\ cliLog' = Append(cliLog, LineFor(cliResult[1]))
    /\ exitCode' = <<ExitCodeFor(cliResult[1])>>
    /\ cliPc' = "exited"
    /\ UNCHANGED <<cliInput, cliOptions, cliOutputFile, cliCall, cliResult,
                   cliWritten, convVars, cleanVars, headVars, runVars>>

NextCli == CliDeriveOutput \/ CliConvert \/ CliConversionEnds \/ CliReport

SpecCli == InitCli /\ [][NextCli]_vars


(***************************************************************************)
(* Properties of convertMdToPdf (Spec)                                     *)
(***************************************************************************)
InTrace(stage) == \E i \in 1..Len(trace) : trace[i] = stage

EngineStages == {"launch", "newPage", "setContent", "pdf", "close"}
IsEngineStage(stage) == stage \in EngineStages
EngineCalls == SelectSeq(trace, IsEngineStage)

\* C1: convertMdToPdf always resolves to a result value and never rejects:
\* whatever exception is raised while reading, sanitizing, tokenizing,
\* compiling options.tocFilter, rendering or driving the engine, the
\* finished invocation has returned exactly one value and thrown nothing.
C1_NeverThrows ==
    pc = "done" => (Len(result) = 1 /\ thrown = <<>>)

\* C2: on every exit path taken after the engine was launched, the browser
\* has been closed when the function returns: no finished invocation
\* leaves a launched browser open.
C2_BrowserClosedOnExit ==
    pc = "done" => browser # "open"

C5_InvalidPathFallsBack ==
    ( /\ launchedWith # NoPath
      /\ options.chromePath # NoPath
      /\ options.chromePath \notin installed
      /\ findChromePath # NoPath ) =>
        launchedWith = findChromePath

\* C6: a finished invocation returns Success only after launch, newPage,
\* setContent, pdf and close all completed, in this order, with no
\* exception; the Success value carries outputPath, the absolute resolution
\* of the outputFile argument; every Failure value carries a message and no
\* outputPath.
C6_ResultShape ==
    (pc = "done" /\ result # <<>>) =>
        LET r == result[1] IN
        IF r.success
        THEN /\ EngineCalls = <<"launch", "newPage", "setContent", "pdf", "close">>
             /\ error = ""
             /\ browser = "closed"
             /\ DOMAIN r = {"success", "message", "outputPath"}
             /\ r.outputPath = PathResolve(outputFile)
             /\ r.outputPath.abs
        ELSE /\ DOMAIN r = {"success", "message"}
             /\ r.message.text # ""

\* C6 witness: a Success whose outputFile argument was relative and held a
\* '..' segment.
C6_Witness ==
    /\ pc = "done"
    /\ Len(result) = 1
    /\ result[1].success
    /\ outputFile = Path(FALSE, <<"..", "out", "notes.pdf">>)
    /\ result[1].outputPath = Path(TRUE, <<"out", "notes.pdf">>)

(***************************************************************************)
(* Properties of cleanMarkdownContent (SpecClean)                          *)
(***************************************************************************)
\* Two occurrences of ' & ' that share a space.
OverlappingAmps == <<" ", "&", " ", "&", " ">>

C7_Settled(x) ==
    LET s == StripInvisible(x)
    IN  /\ ~Contains(s, OverlappingAmps)
        /\ ~HasFrontMatter(RemoveFrontMatter(s))

C8_ExampleYieldsBody ==
    (cpc # "start" /\ cleanIn = FrontMatterExample) => cleanOut = ExampleBody

\* The text begins with a line that is exactly '---'.
FirstLineIsDashes(t) ==
    MatchAt(t, 1, Dashes) /\ (Len(t) = 3 \/ t[4] = "\n")

\* A line that is exactly '---' starts at position j.
DashLineAt(t, j) ==
    /\ MatchAt(t, j, Dashes)
    /\ (j = 1 \/ t[j - 1] = "\n")
    /\ (j + 3 > Len(t) \/ t[j + 3] = "\n")

\* The later lines that are exactly '---'.
ClosingLines(t) == {j \in 5..Len(t) : DashLineAt(t, j)}

\* C9: a leading block is stripped only when the text begins with a line
\* that is exactly '---', and then everything up to and including the next
\* line that is exactly '---' is removed, once; a first line that merely
\* starts with '---', or a '---' inside a line, does not make a block.
C9_OnlyDelimiterLines ==
    cpc # "start" =>
        LET t == EscapeAmpersands(StripInvisible(cleanIn))
        IN  IF FirstLineIsDashes(t) /\ ClosingLines(t) # {}
            THEN LET j == CHOOSE m \in ClosingLines(t) :
                              \A k \in ClosingLines(t) : m <= k
                 IN  cleanOut \in { SubSeq(t, j + 3, Len(t)),
                                    SubSeq(t, j + 4, Len(t)) }
            ELSE cleanOut = t

\* C10: every ampersand with a single space on each side is replaced: the
\* cleaned text contains no substring ' & '.
C10_NoBareAmpersandLeft ==
    cpc # "start" => ~Contains(cleanOut, BareAmp)


(***************************************************************************)
(* Properties of extractHeadings and generateTocHtml (SpecHeadings)        *)
(***************************************************************************)
\* Position of the first occurrence of chunk in markup m at or after i
\* (0 if there is none).
FirstAt(m, i, chunk) ==
    LET at == {j \in i..Len(m) : m[j] = chunk}
    IN  IF at = {} THEN 0 ELSE CHOOSE j \in at : \A k \in at : j <= k

\* Position of the last occurrence of chunk in m (0 if there is none).
LastAt(m, chunk) ==
    LET at == {j \in 1..Len(m) : m[j] = chunk}
    IN  IF at = {} THEN 0 ELSE CHOOSE j \in at : \A k \in at : j >= k

\* Reading a heading element back: the level after '<h', the value of the
\* id attribute, the text between the start tag and the end tag.
HeadingLevel(m) == SubSeq(m, 2, FirstAt(m, 1, " id=\"") - 1)
IdAttribute(m) ==
    SubSeq(m, FirstAt(m, 1, " id=\"") + 1, FirstAt(m, 1, "\">") - 1)
DisplayedText(m) == SubSeq(m, FirstAt(m, 1, "\">") + 1, LastAt(m, "</h") - 1)

\* The filter as it was passed in, and whether its pattern matches a text.
PassedFilter == hOptions.tocFilter
PatternMatches(re, text) ==
    \E p \in 1..Len(text) : AltsAt(re, text, p) # {}

WasIndexed(i) ==
    hInput[i].type = "heading" /\ hInput[i].depth <= MaxDepthOf(hOptions)

\* C11: after extractHeadings every block that was a heading of depth <=
\* maxDepth has kind 'html' and the text <h{depth} id="{anchor}">{cleanText}
\* </h{depth}>, whether or not the filter listed it; no heading of depth <=
\* maxDepth remains a heading block.
C11_EveryHeadingRewritten ==
    hpc \in {"extracted", "rendered"} =>
        /\ Len(hTokens) = Len(hInput)
        /\ \A i \in 1..Len(hInput) :
              WasIndexed(i) =>
                 /\ hTokens[i].type = "html"
                 /\ HeadingLevel(hTokens[i].text) = NumberText(hInput[i].depth)
                 /\ IdAttribute(hTokens[i].text)
                        = Anchor(CleanText(hInput[i].text))
                 /\ DisplayedText(hTokens[i].text) = CleanText(hInput[i].text)
                 /\ hTokens[i].text
                        = HeadingHtml(hInput[i].depth,
                                      Anchor(CleanText(hInput[i].text)),
                                      CleanText(hInput[i].text))
        /\ \A i \in 1..Len(hTokens) :
              ~(hTokens[i].type = "heading"
                    /\ hTokens[i].depth <= MaxDepthOf(hOptions))

\* C11 witness: two headings within the ceiling, both rewritten, of which
\* the filter listed none.
C11_Witness ==
    /\ hpc = "extracted"
    /\ Len(hInput) >= 2
    /\ WasIndexed(1) /\ WasIndexed(2)
    /\ hTokens[1].type = "html" /\ hTokens[2].type = "html"
    /\ hToc = <<>>

\* C12: the depth ceiling is inclusive: a heading of depth = maxDepth is
\* rewritten and, under a filter without state, listed exactly if its
\* cleaned text matches; a heading of depth = maxDepth + 1 keeps its kind,
\* text and every other field, and no entry of that level is returned even
\* when its text matches the filter.
C12_DepthCeilingInclusive ==
    hpc \in {"extracted", "rendered"} =>
        /\ \A i \in 1..Len(hInput) :
              /\ (hInput[i].type = "heading"
                    /\ hInput[i].depth = MaxDepthOf(hOptions)) =>
                    /\ hTokens[i].type = "html"
                    /\ ~Stateful(PassedFilter) =>
                          (PatternMatches(PassedFilter, CleanText(hInput[i].text))
                             <=> \E k \in 1..Len(hToc) :
                                    /\ hToc[k].level = MaxDepthOf(hOptions)
                                    /\ hToc[k].text = CleanText(hInput[i].text))
              /\ (hInput[i].type = "heading"
                    /\ hInput[i].depth = MaxDepthOf(hOptions) + 1) =>
                    hTokens[i] = hInput[i]
        /\ \A k \in 1..Len(hToc) : hToc[k].level <= MaxDepthOf(hOptions)

\* C12 witness: under the ceiling 4 and the default filter, a depth-5
\* heading 'Topic' left as it was and a depth-4 heading 'Topic' rewritten
\* and listed.
C12_Witness ==
    /\ hpc = "extracted"
    /\ "maxDepth" \notin DOMAIN hOptions
    /\ PassedFilter = DefaultFilterRegExp
    /\ hInput = <<HeadingToken(5, Topic), HeadingToken(4, Topic)>>
    /\ hTokens[1] = HeadingToken(5, Topic)
    /\ hTokens[2].type = "html"
    /\ Len(hToc) = 1 /\ hToc[1].level = 4

\* The entries the claim describes: one per heading of depth <= maxDepth
\* whose cleaned text matches the pattern, in document order.
RECURSIVE MatchingEntries(_, _, _)
MatchingEntries(tokens, re, maxDepth) ==
    IF tokens = <<>> THEN <<>>
    ELSE LET t == Head(tokens)
             rest == MatchingEntries(Tail(tokens), re, maxDepth)
         IN  IF /\ t.type = "heading"
                /\ t.depth <= maxDepth
                /\ PatternMatches(re, CleanText(t.text))
             THEN << [anchor |-> Anchor(CleanText(t.text)),
                      level |-> t.depth,
                      text |-> CleanText(t.text)] >> \o rest
             ELSE rest

\* C13: the returned sequence is exactly the headings of depth <= maxDepth
\* whose cleaned text matches the filter, in document order, one entry per
\* heading, with level = depth, the cleaned text and its anchor.
C13_TocIsTheMatchingHeadings ==
    hpc \in {"extracted", "rendered"} =>
        hToc = MatchingEntries(hInput, PassedFilter, MaxDepthOf(hOptions))

\* C14: for every returned entry there is a rewritten block whose id
\* attribute is the entry's anchor, whose level is the entry's level and
\* whose displayed text is the entry's text, and these blocks stand in the
\* order of the entries.
C14_EntriesLinkToBlocks ==
    hpc \in {"extracted", "rendered"} =>
        \E f \in [1..Len(hToc) -> 1..Len(hTokens)] :
            /\ \A k, l \in 1..Len(hToc) : k < l => f[k] < f[l]
            /\ \A k \in 1..Len(hToc) :
                  /\ hTokens[f[k]].type = "html"
                  /\ IdAttribute(hTokens[f[k]].text) = hToc[k].anchor
                  /\ HeadingLevel(hTokens[f[k]].text) = NumberText(hToc[k].level)
                  /\ DisplayedText(hTokens[f[k]].text) = hToc[k].text

\* C14 witness: two different entries, written under emphasis in the
\* source, with an unlisted rewritten heading between them.
C14_Witness ==
    /\ hpc = "extracted"
    /\ Len(hTokens) = 3
    /\ hTokens[1].type = "html" /\ hTokens[2].type = "html"
    /\ hTokens[3].type = "html"
    /\ Len(hToc) = 2
    /\ hToc[1].anchor # hToc[2].anchor
    /\ hInput[1].text # hToc[1].text
    /\ IdAttribute(hTokens[2].text) \notin {hToc[1].anchor, hToc[2].anchor}


\* C15: the anchor is a function of the cleaned text alone: in every call,
\* under every filter and ceiling, the id of a rewritten block is the one
\* anchor of its displayed text, so two headings with the same cleaned
\* text - whatever their depth and position, listed or not - carry the same
\* id, and entries with the same text carry the same anchor.
C15_AnchorDependsOnCleanTextOnly ==
    hpc \in {"extracted", "rendered", "again"} =>
        /\ \A i, j \in 1..Len(hInput) :
              ( /\ WasIndexed(i) /\ WasIndexed(j)
                /\ CleanText(hInput[i].text) = CleanText(hInput[j].text) ) =>
                    IdAttribute(hTokens[i].text) = IdAttribute(hTokens[j].text)
        /\ \A i \in 1..Len(hInput) :
              WasIndexed(i) =>
                  IdAttribute(hTokens[i].text)
                      = HyphenateFrom(ToLowerCase(DisplayedText(hTokens[i].text)), 1)
        /\ \A k, l \in 1..Len(hToc) :
              hToc[k].text = hToc[l].text => hToc[k].anchor = hToc[l].anchor
        /\ \A k \in 1..Len(hToc) : \A i \in 1..Len(hInput) :
              (WasIndexed(i) /\ hToc[k].text = DisplayedText(hTokens[i].text)) =>
                  hToc[k].anchor = IdAttribute(hTokens[i].text)

\* C15 witness: two headings written differently and of different depth
\* with the same cleaned text, the first listed and the second not, both
\* with the same id.
C15_Witness ==
    /\ hpc = "extracted"
    /\ Len(hInput) >= 2
    /\ WasIndexed(1) /\ WasIndexed(2)
    /\ hInput[1].text # hInput[2].text
    /\ hInput[1].depth # hInput[2].depth
    /\ CleanText(hInput[1].text) = CleanText(hInput[2].text)
    /\ Len(hToc) = 1
    /\ IdAttribute(hTokens[1].text) = IdAttribute(hTokens[2].text)

RECURSIVE ListItemsFrom(_, _)
ListItemsFrom(m, i) ==
    LET li == FirstAt(m, i, "<li class=\"")
    IN  IF li = 0 THEN <<>>
        ELSE LET a == FirstAt(m, li, "\"><a href=\"#")
                 b == FirstAt(m, a, "\">")
                 e == FirstAt(m, b, "</a></li>")
             IN  << [class |-> SubSeq(m, li + 1, a - 1),
                     href  |-> SubSeq(m, a + 1, b - 1),
                     text  |-> SubSeq(m, b + 1, e - 1)] >>
                     \o ListItemsFrom(m, e + 1)

\* C17: generateTocHtml emits exactly one list item per entry, in the order
\* of the entries, each a link to '#' + anchor with the entry's text as
\* link text, carrying the class 'toc-indent' exactly if the entry's level
\* is greater than 3.
C17_OneItemPerEntry ==
    hpc \in {"rendered", "again"} =>
        LET items == ListItemsFrom(hTocHtml, 1)
        IN  /\ Len(items) = Len(hToc)
            /\ \A k \in 1..Len(hToc) :
                  /\ items[k].href = hToc[k].anchor
                  /\ items[k].text = hToc[k].text
                  /\ items[k].class \in {<<>>, <<"toc-indent">>}
                  /\ items[k].class = <<"toc-indent">> <=> hToc[k].level > 3
                  /\ hToc[k].level \in 1..3 => items[k].class = <<>>
                  /\ hToc[k].level = 4 => items[k].class = <<"toc-indent">>

\* C17 witness: a fragment for an entry of level 3 followed by one of
\* level 4.
C17_Witness ==
    /\ hpc = "rendered"
    /\ Len(hToc) >= 2
    /\ hToc[1].level = 3 /\ hToc[2].level = 4
    /\ Len(ListItemsFrom(hTocHtml, 1)) = Len(hToc)

\* C18: generateTocHtml never suppresses itself: for every entry sequence,
\* the empty one included, the fragment is the container with the title,
\* the list, and the page-break marker as its last element; with no entry
\* it is title + empty list + page break.
C18_TocAlwaysRendered ==
    hpc \in {"rendered", "again"} =>
        /\ Len(hTocHtml) >= Len(hTitle) + 4
        /\ hTocHtml[1] = TocOpen
        /\ SubSeq(hTocHtml, 2, Len(hTitle) + 1) = hTitle
        /\ hTocHtml[Len(hTitle) + 2] = TocListOpen
        /\ hTocHtml[Len(hTocHtml) - 1] = TocListClose
        /\ hTocHtml[Len(hTocHtml)] = PageBreak
        /\ hToc = <<>> =>
              hTocHtml = <<TocOpen>> \o hTitle
                             \o <<TocListOpen, TocListClose, PageBreak>>

\* C18 witness: a token array without any heading, its fragment rendered.
C18_Witness ==
    /\ hpc = "rendered"
    /\ hInput = <<ParagraphToken(Topic)>>
    /\ hToc = <<>>
    /\ hTocHtml[Len(hTocHtml)] = PageBreak

---------------------------------------------------------------------------
\* The end-to-end properties of the document pipeline (specification Spec).

\* What lines 291-296 compute from the file's text and the tocFilter option
\* alone.
Lexed == Lexer(cleanMarkdownContent(fileText))
Extracted ==
    extractHeadings(Lexed, CompileRegExp(options.tocFilter), DefaultMaxDepth)

\* The element marked.parser writes for a heading token it was handed.
PlainHeading(depth, text) ==
    <<"<h">> \o NumberText(depth) \o <<">">> \o text
        \o <<"</h">> \o NumberText(depth) \o <<">\n">>

\* C19: options.noToc changes only the TOC fragment. Once the fragment is
\* computed it is empty under noToc and generateTocHtml(toc, tocTitle)
\* otherwise; the rewritten tokens, the toc and the body are what the file
\* text and the filter determine, whatever noToc is; and under noToc every
\* heading of depth 4 or less is still an html block carrying the anchor of
\* its clean text, which is found in the body.
C19_NoTocChangesOnlyFragment ==
    /\ InTrace("toc") =>
          IF options.noToc
          THEN tocHtml = <<>>
          ELSE /\ tocHtml = generateTocHtml(docToc, options.tocTitle)
               /\ tocHtml[1] = TocOpen
               /\ tocHtml[Len(tocHtml)] = PageBreak
    /\ InTrace("extractHeadings") =>
          /\ docTokens = Extracted.tokens
          /\ docToc = Extracted.toc
    /\ InTrace("parse") =>
          bodyContent = Parser(Extracted.tokens)
    /\ (options.noToc /\ InTrace("parse")) =>
          \A i \in 1..Len(Lexed) :
              (Lexed[i].type = "heading" /\ Lexed[i].depth <= 4) =>
                  /\ docTokens[i].type = "html"
                  /\ IdAttribute(docTokens[i].text)
                        = Anchor(CleanText(Lexed[i].text))
                  /\ Contains(bodyContent, docTokens[i].text)

\* A conversion with noToc set got through: no fragment, yet the listed
\* heading is anchored in the body.
C19_Witness ==
    /\ pc = "done"
    /\ Len(result) = 1
    /\ result[1].success
    /\ options.noToc
    /\ fileText = TopicDocument
    /\ tocHtml = <<>>
    /\ Len(docToc) = 1
    /\ Contains(bodyContent, HeadingHtml(3, TopicOneAnchor, TopicOne))
    /\ ~Contains(fullHtml, <<TocOpen>>)

\* C20: under default options the document TopicDocument gives exactly the
\* entry {anchor: 'topic-one', level: 3, text: 'Topic One'}; its depth-3
\* heading becomes an html block with id 'topic-one', and its depth-5
\* heading stays a heading token, unanchored in the body and not listed.
C20_TopicDocumentScenario ==
    (/\ fileText = TopicDocument
     /\ options.tocFilter = DefaultTocFilter
     /\ options.tocTitle = DefaultTocTitle
     /\ ~options.noToc
     /\ InTrace("parse")) =>
        /\ docToc = << [anchor |-> TopicOneAnchor, level |-> 3,
                       text |-> TopicOne] >>
        /\ Len(docTokens) = 4
        /\ docTokens[1].type = "html"
        /\ HeadingLevel(docTokens[1].text) = <<"3">>
        /\ IdAttribute(docTokens[1].text) = TopicOneAnchor
        /\ DisplayedText(docTokens[1].text) = TopicOne
        /\ docTokens[3] = Lexed[3]
        /\ docTokens[3].type = "heading"
        /\ docTokens[3].depth = 5
        /\ docTokens[3].text = DeepHeading
        /\ Contains(bodyContent, PlainHeading(5, DeepHeading))
        /\ \A e \in 1..Len(docToc) : docToc[e].text # DeepHeading

\* The scenario ran to a generated PDF.
C20_Witness ==
    /\ pc = "done"
    /\ Len(result) = 1
    /\ result[1].success
    /\ fileText = TopicDocument
    /\ options.tocFilter = DefaultTocFilter
    /\ options.tocTitle = DefaultTocTitle
    /\ ~options.noToc
    /\ Len(docToc) = 1
    /\ docTokens[3].type = "heading"
    /\ Contains(fullHtml, TocItems(docToc))

\* How often a stage occurs among the completed stages.
TimesDone(tr, stage) == Cardinality({i \in 1..Len(tr) : tr[i] = stage})

\* The positions of convertMdToPdf at which an engine call is pending.
EnginePositions == {"launch", "newPage", "setContent", "pdf", "close"}

\* C22: no retries. No engine call completes twice in an invocation; the
\* launch is only ever reached from the assembly and the pdf call from
\* setContent, so neither is attempted again; an exception can only come
\* out of a pending engine call, leads to the catch clause with no call
\* completed, and from there the only step is the return of the Failure
\* result, the engine left as it was.
C22_NoRetries ==
    [][ /\ \A stage \in EngineStages : TimesDone(trace', stage) <= 1
        /\ pc' = "launch" => pc = "assemble"
        /\ pc' = "pdf" => pc = "setContent"
        /\ (error = "" /\ error' # "") =>
              /\ pc \in EnginePositions
              /\ pc' = "catch"
              /\ trace' = trace
        /\ error # "" =>
              /\ pc = "catch"
              /\ pc' = "done"
              /\ result' = <<FailureResult(GenerationFailedMessage)>>
              /\ UNCHANGED <<error, trace, browser, launchedWith>>
      ]_vars

\* The pdf call failed after three engine calls had completed, and the
\* invocation returned the Failure.
C22_Witness ==
    /\ pc = "done"
    /\ error = "Printing failed"
    /\ EngineCalls = <<"launch", "newPage", "setContent">>
    /\ Len(result) = 1
    /\ ~result[1].success

\* The statements of a run that gets through, in source order.
StageOrder ==
    <<"resolve", "checkInput", "findChrome", "configureMarked", "read",
      "clean", "lex", "compileFilter", "extractHeadings", "parse", "toc",
      "assemble", "launch", "newPage", "setContent", "pdf", "close">>

\* C24: the stages are performed in the fixed forward order. The completed
\* stages are always an initial part of StageOrder, and all of it when the
\* Success result is returned; the body is the rendering of the tokens as
\* extractHeadings left them; and the engine is started only once the full
\* document has been assembled from the fragment and the body.
C24_StagesInForwardOrder ==
    /\ Len(trace) <= Len(StageOrder)
    /\ trace = SubSeq(StageOrder, 1, Len(trace))
    /\ (pc = "done" /\ Len(result) = 1 /\ result[1].success) =>
          trace = StageOrder
    /\ InTrace("parse") =>
          /\ InTrace("extractHeadings")
          /\ bodyContent = Parser(Extracted.tokens)
    /\ launchedWith # NoPath =>
          /\ InTrace("assemble")
          /\ fullHtml = generateFullHtml(tocHtml, bodyContent, <<>>)

\* A run that got through on a document whose heading was rewritten before
\* the body was rendered.
C24_Witness ==
    /\ pc = "done"
    /\ Len(result) = 1
    /\ result[1].success
    /\ trace = StageOrder
    /\ Extracted.tokens # Lexed
    /\ Contains(bodyContent, HeadingHtml(3, TopicOneAnchor, TopicOne))

---------------------------------------------------------------------------
\* The order of the sanitizer's steps (specification SpecClean).

\* The ampersands of s that have a space on each side.
SpacedAmpersands(s) ==
    {i \in 2..(Len(s) - 1) : s[i - 1] = " " /\ s[i] = "&" /\ s[i + 1] = " "}

\* Where ' &amp; ' occurs in s.
Entities(s) == {i \in 1..Len(s) : MatchAt(s, i, AmpEntity)}

\* C25: the zero-width characters are removed first, so the later steps see
\* the stripped text. The output has none of U+200B..U+200D, U+FEFF; it is
\* the output for the stripped text; a text that begins with U+FEFF and
\* then a '---' line, with a closing '---' line later, loses that block;
\* and every ampersand whose neighbours are spaces once the zero-width
\* characters are gone is escaped (where no block is cut out of the text).
C25_StrippedBeforeLaterSteps ==
    cpc # "start" =>
        LET s == StripInvisible(cleanIn)
            t == EscapeAmpersands(s)
        IN  /\ \A i \in 1..Len(cleanOut) : cleanOut[i] \notin ZeroWidth
            /\ cleanOut = cleanMarkdownContent(s)
            /\ (/\ cleanIn # <<>>
                /\ cleanIn[1] = "U+FEFF"
                /\ FirstLineIsDashes(t)
                /\ ClosingLines(t) # {}) =>
                  LET j == CHOOSE m \in ClosingLines(t) :
                               \A k \in ClosingLines(t) : m <= k
                  IN  cleanOut = SubSeq(t, j + 3, Len(t))
            /\ ~HasFrontMatter(t) =>
                  Cardinality(Entities(cleanOut))
                      = Cardinality(SpacedAmpersands(s))

---------------------------------------------------------------------------
\* The token array around extractHeadings (specification SpecHeadings).

\* C26: extractHeadings keeps the length and the order of the token array;
\* a block that is not a heading, and a heading deeper than maxDepth, is
\* the same in every field afterwards; a rewritten heading has a new kind
\* and a new text, and the depth and raw it had.
C26_OnlyKindAndTextChange ==
    hpc \in {"extracted", "rendered"} =>
        /\ Len(hTokens) = Len(hInput)
        /\ \A i \in 1..Len(hInput) :
              IF WasIndexed(i)
              THEN /\ hTokens[i].depth = hInput[i].depth
                   /\ hTokens[i].raw = hInput[i].raw
                   /\ hTokens[i].type # hInput[i].type
                   /\ hTokens[i].text # hInput[i].text
                   /\ hTokens[i] = [hInput[i] EXCEPT !.type = hTokens[i].type,
                                                     !.text = hTokens[i].text]
              ELSE hTokens[i] = hInput[i]

\* A paragraph, a rewritten heading and a heading below the ceiling, in
\* that order.
C26_Witness ==
    /\ hpc = "extracted"
    /\ Len(hInput) = 3
    /\ hInput[1].type = "paragraph" /\ hTokens[1] = hInput[1]
    /\ WasIndexed(2) /\ hTokens[2].type = "html"
    /\ hTokens[2].raw = hInput[2].raw
    /\ hInput[3].type = "heading" /\ ~WasIndexed(3) /\ hTokens[3] = hInput[3]

\* C27: the rewrite is one-way. A second extractHeadings call on the array
\* the first call indexed, with the same maxDepth, leaves the array as it
\* is and returns no entry, with the filter object of the first call and
\* with any other filter.
C27_SecondCallFindsNothing ==
    [][ hpc = "rendered" =>
          /\ hTokens' = hTokens
          /\ hToc2' = <<>>
          /\ \A f \in Filters :
                /\ extractHeadings(hTokens, f, MaxDepthOf(hOptions)).tokens
                      = hTokens
                /\ extractHeadings(hTokens, f, MaxDepthOf(hOptions)).toc
                      = <<>>
      ]_vars

\* The first call returned two entries, the second none.
C27_Witness ==
    /\ hpc = "again"
    /\ Len(hToc) = 2
    /\ hToc2 = <<>>
    /\ \A i \in 1..Len(hTokens) : hTokens[i].type = "html"

\* The characters an anchor may consist of.
AnchorChars == LowerCase \cup {DigitChars[i] : i \in 1..10} \cup {"_", "-"}

UrlSafe(a) ==
    /\ \A i \in 1..Len(a) : a[i] \in AnchorChars
    /\ \A i \in 1..(Len(a) - 1) : ~(a[i] = "-" /\ a[i + 1] = "-")

\* C28: every anchor is URL-safe. The anchor of each entry, and the id
\* written into each rewritten heading, consists of lowercase letters,
\* digits, underscore and hyphen only, with no two hyphens in a row.
C28_AnchorsUrlSafe ==
    hpc \in {"extracted", "rendered"} =>
        /\ \A e \in 1..Len(hToc) : UrlSafe(hToc[e].anchor)
        /\ \A i \in 1..Len(hInput) :
              WasIndexed(i) => UrlSafe(IdAttribute(hTokens[i].text))

\* The heading 'Topic "a" <b>--c_D é' indexed: quotes, brackets, blanks
\* and the double hyphen have become single hyphens.
C28_Witness ==
    /\ hpc = "extracted"
    /\ hInput = <<HeadingToken(3, MarkupExample)>>
    /\ Len(hToc) = 1
    /\ hToc[1].anchor = <<"t", "o", "p", "i", "c", "-", "a", "-", "b", "-",
                          "c", "_", "d", "-">>
    /\ IdAttribute(hTokens[1].text) = hToc[1].anchor

\* The indexed headings with a cleaned text, and the entries with it.
IndexedWithText(c) ==
    {i \in 1..Len(hInput) : WasIndexed(i) /\ CleanText(hInput[i].text) = c}
EntriesWithText(c) == {e \in 1..Len(hToc) : hToc[e].text = c}

\* C29: within one call, headings with the same cleaned text are listed
\* together or not at all, whatever came before them and whatever flags the
\* filter carries: the entries with a text are none, or as many as the
\* indexed headings with that text.
C29_ListingIgnoresEarlierHeadings ==
    hpc \in {"extracted", "rendered"} =>
        \A i \in 1..Len(hInput) :
            WasIndexed(i) =>
                LET c == CleanText(hInput[i].text)
                IN  Cardinality(EntriesWithText(c))
                        \in {0, Cardinality(IndexedWithText(c))}

---------------------------------------------------------------------------
\* Concurrent invocations (specification SpecTwo).

\* For each choice of arguments, what an invocation running alone computes.
AloneIndexed == [in \in RunInputs |-> IndexedOf(in.fileText)]
AloneDocument == [in \in RunInputs |-> DocumentOf(in.fileText, in.noToc)]

\* What invocation r holds and returns if nothing but its own arguments and
\* its own engine calls count.
AsIfAlone(r) ==
    r.pc # "start" =>
        LET in == [fileText |-> r.fileText, noToc |-> r.noToc]
            indexed == AloneIndexed[in]
            document == AloneDocument[in]
        IN  /\ r.tokens = indexed.tokens
            /\ r.toc = indexed.toc
            /\ r.fullHtml = document
            /\ r.parsedUnder = ConfiguredMarkedOptions
            /\ r.pageContent \in {<<>>, document}
            /\ r.pc \in {"pdf", "close"} => r.pageContent = document
            /\ r.pc = "done" =>
                  r.result = IF r.error = ""
                             THEN <<[success |-> TRUE]>>
                             ELSE <<[success |-> FALSE, cause |-> r.error]>>

\* C21: concurrent invocations do not interfere. However their turns are
\* interleaved at the awaits, every invocation holds the tokens, entries
\* and document of its own file, was parsed under the configured options,
\* hands the engine its own document and returns the result of its own
\* engine calls; and a turn of one invocation changes nothing of another.
C21_InvocationsDoNotInterfere ==
    [][ /\ \A i \in Runs : AsIfAlone(runs'[i])
        /\ \A i \in Runs :
              runs'[i] # runs[i] =>
                  \A j \in Runs \ {i} : runs'[j] = runs[j]
      ]_vars

\* Two invocations on different documents, the second called while the
\* first awaited the engine, and the first resumed after that: both are
\* past setContent with their own document.
C21_Witness ==
    /\ started = <<1, 2>>
    /\ runs[1].fileText # runs[2].fileText
    /\ runs[1].pc = "close"
    /\ runs[2].pc = "pdf"
    /\ runs[1].pageContent = runs[1].fullHtml
    /\ runs[2].pageContent = runs[2].fullHtml
    /\ runs[1].pageContent # runs[2].pageContent

---------------------------------------------------------------------------
\* The command line (specification SpecCli).

\* C23: the process ends with code 1 exactly when the conversion returned a
\* Failure or threw, and with code 0 when it returned a Success; no success
\* line is printed after a Failure; no code is set before the result is
\* reported.
C23_ExitCodeFollowsResult ==
    /\ cliPc # "exited" => exitCode = <<>>
    /\ cliPc = "exited" =>
          /\ Len(exitCode) = 1
          /\ exitCode[1] = 1 <=>
                (cliResult[1].how = "threw" \/ ~cliResult[1].success)
          /\ (cliResult[1].how = "returned" /\ cliResult[1].success) =>
                exitCode[1] = 0
          /\ ~cliResult[1].success => cliLog # <<"success">>

\* A Failure was returned and reported, and the process ended with code 1.
C23_Witness ==
    /\ cliPc = "exited"
    /\ cliResult[1].how = "returned"
    /\ ~cliResult[1].success
    /\ cliLog = <<"Error">>
    /\ exitCode = <<1>>

\* C30: with --output left out, the output file derived from the input
\* file differs from it, so the conversion is never told to write, and
\* never writes, the PDF over its source.
C30_OutputNeverTheInput ==
    (cliPc # "start" /\ cliOptions.output = NoOutput) =>
        /\ cliOutputFile # cliInput
        /\ \A c \in 1..Len(cliCall) : cliCall[c].outputFile # cliCall[c].inputFile
        /\ cliInput \notin cliWritten

====
